---- MODULE Spec2Model ----
(***************************************************************************)
(* Model of codeatlas' dependency extractor (codeatlas/deps/analyzer.py)   *)
(* and of the snapshot it consumes (codeatlas/ingest/git_repo.py).         *)
(*                                                                         *)
(* Paths are pathlib.PurePosixPath values: a root ("", "/" or "//") and a  *)
(* sequence of names; a name is split into stem and suffix the way         *)
(* PurePath.stem / PurePath.suffix split it.  Strings that hold paths      *)
(* (FileRecord.rel_path, the keys and members of the two maps) are TLA+    *)
(* strings, rendered by Str and parsed by ParsePath.                       *)
(***************************************************************************)
EXTENDS Integers, Sequences, FiniteSets, TLC

(***************************************************************************)
(* Bounds of the exploration.                                              *)
(***************************************************************************)
\* longest file content, in lines / statements
MaxLines == 2
\* longest content of a Go file with import blocks, in lines
MaxBlockLines == 4
\* number of analyze() calls on one DependencyAnalyzer
MaxRuns == 2

(***************************************************************************)
(* pathlib                                                                 *)
(***************************************************************************)
\* a path component with PurePath.stem and PurePath.suffix
N(stem, suffix) == [stem |-> stem, suffix |-> suffix]

\* a component without suffix
W(stem) == N(stem, "")

\* PurePosixPath: root is "" (relative), "/" or "//"
P(root, parts) == [root |-> root, parts |-> parts]

DotDot == W("..")

\* PurePath.name
NameStr(n) == n.stem \o n.suffix

RECURSIVE JoinNames(_)
JoinNames(parts) ==
  IF Len(parts) = 0 THEN ""
  ELSE IF Len(parts) = 1 THEN NameStr(parts[1])
  ELSE NameStr(parts[1]) \o "/" \o JoinNames(Tail(parts))

\* str(path) and Path.as_posix()
Str(p) ==
  IF Len(p.parts) = 0 THEN (IF p.root = "" THEN "." ELSE p.root)
  ELSE p.root \o JoinNames(p.parts)

\* PurePath.parent
Parent(p) ==
  IF Len(p.parts) = 0 THEN p ELSE P(p.root, SubSeq(p.parts, 1, Len(p.parts) - 1))

\* PurePath.__truediv__: an absolute right operand replaces the left one
Div(p, q) == IF q.root # "" THEN q ELSE P(p.root, p.parts \o q.parts)

\* with_suffix raises ValueError on a path with an empty name
HasName(p) == Len(p.parts) > 0

\* PurePath.with_suffix: the suffix of the last component is REPLACED
WithSuffix(p, ext) ==
  P(p.root, [p.parts EXCEPT ![Len(p.parts)] = N(p.parts[Len(p.parts)].stem, ext)])

RECURSIVE Collapse(_, _)
Collapse(done, todo) ==
  IF Len(todo) = 0 THEN done
  ELSE IF Head(todo) = DotDot
       THEN Collapse(IF Len(done) = 0 THEN done ELSE SubSeq(done, 1, Len(done) - 1),
                     Tail(todo))
       ELSE Collapse(Append(done, Head(todo)), Tail(todo))

\* Path.resolve(): made absolute against the working directory, ".." collapsed
ResolvePath(p, workdir) ==
  LET a == IF p.root = "" THEN Div(workdir, p) ELSE p
  IN  P("/", Collapse(<<>>, a.parts))

IsPrefix(s, t) == Len(s) <= Len(t) /\ SubSeq(t, 1, Len(s)) = s

\* PurePath.relative_to succeeds exactly when base is a prefix of p
IsRelativeTo(p, base) == p.root = base.root /\ IsPrefix(base.parts, p.parts)

RelativeTo(p, base) == P("", SubSeq(p.parts, Len(base.parts) + 1, Len(p.parts)))

(***************************************************************************)
(* The file system and the analyzer's state                                *)
(***************************************************************************)
VARIABLES
  disk,          \* absolute paths of the regular files that exist
  content,       \* what read_text() meets for each file analyze() opens
  cwd,           \* the process's working directory (Path.resolve() uses it)
  files,         \* repo_info.files: the snapshot, a list of FileRecord
  dependencies,  \* DependencyAnalyzer.dependencies: rel_path -> list
  dependents,    \* DependencyAnalyzer.dependents: rel_path -> list
  pc,            \* "idle", "analyzing", "done" (analyze returned), "raised"
                 \* (an exception left analyze(); the caller may go on querying)
  idx,           \* position of analyze()'s for loop in repo_info.files
  runs,          \* analyze() calls made on this analyzer
  ret,           \* value returned by the last query
  firstGraph,    \* the two maps, as sets, when the first analyze() returned
  gh,            \* github_actions_mode: its position and its local variables
  fork           \* RepoManager._ensure_fork / _wait_for_fork: position, polls

fsVars == <<disk, content, cwd, files>>

graphVars == <<dependencies, dependents>>

\* the callers of the analyzer: github_actions_mode and the fork request
procVars == <<gh, fork>>

vars == <<disk, content, cwd, files, dependencies, dependents, pc, idx, runs, ret, firstGraph, gh, fork>>

\* repo_info.path: RepoManager clones into workdir / repo_name
RepoPath == P("/", <<W("w"), W("r")>>)

\* a working directory that is not the checkout
OtherCwd == P("/", <<W("w")>>)

\* the kernel's view of an absolute path: "//" is "/", ".." is followed
Canon(p) == P("/", Collapse(<<>>, p.parts))

\* Path.is_file()
IsFile(p) == Canon(p) \in disk

\* Path.is_dir(): the directories are those that lead to a file, to the
\* checkout or to the working directory
IsDir(p) ==
  LET c == Canon(p).parts
  IN  \/ IsPrefix(c, RepoPath.parts)
      \/ IsPrefix(c, cwd.parts)
      \/ \E f \in disk : IsPrefix(c, f.parts) /\ Len(c) < Len(f.parts)

\* Path.exists()
Exists(p) == IsFile(p) \/ IsDir(p)

(***************************************************************************)
(* Results of a resolver: a repo-relative path string, None, or an         *)
(* exception that leaves the resolver.                                     *)
(***************************************************************************)
Found(s) == [kind |-> "path", path |-> s]

NotFound == [kind |-> "none", path |-> ""]

Raised == [kind |-> "raise", path |-> ""]

(***************************************************************************)
(* A module reference as written in the source: `lead` leading dots        *)
(* (Python) or slashes (JavaScript, Go) followed by the names `segs`.      *)
(***************************************************************************)
Ref(lead, segs) == [lead |-> lead, segs |-> segs]

\* a line (Python, Go) or a statement (JavaScript, Rust) of a file
Line(kind, ref) == [kind |-> kind, ref |-> ref]

IsEmptyName(n) == n = W("")

\* str.split("."): each leading dot gives an empty part, a bare "." two
SplitDots(module) ==
  [i \in 1..module.lead |-> W("")]
    \o (IF Len(module.segs) = 0 THEN <<W("")>> ELSE module.segs)

\* Path("/".join(parts)): empty parts become slashes; one leading slash or
\* three and more give the root "/", exactly two give "//"
PathOfJoined(parts) ==
  LET n == Len(parts)
      k == IF \A i \in 1..n : IsEmptyName(parts[i]) THEN n - 1
           ELSE (CHOOSE j \in 1..n : ~IsEmptyName(parts[j])
                                     /\ \A i \in 1..(j - 1) : IsEmptyName(parts[i])) - 1
      root == IF k = 0 THEN "" ELSE IF k = 2 THEN "//" ELSE "/"
  IN  P(root, SelectSeq(parts, LAMBDA x : ~IsEmptyName(x)))

Init__py == P("", <<N("__init__", ".py")>>)

\* the loop `for ext in ["", ".py"]` of the Python resolvers
PyCandidates(potential_path) ==
  IF IsFile(Div(RepoPath, potential_path)) THEN Found(Str(potential_path))
  ELSE IF ~HasName(potential_path) THEN Raised
  ELSE IF IsFile(Div(RepoPath, WithSuffix(potential_path, ".py")))
       THEN Found(Str(WithSuffix(potential_path, ".py")))
       ELSE NotFound

\* the candidates rooted at the repository root are tried first
ResolvePythonModuleRootFirst(file_dir, module) ==
  LET module_parts == SplitDots(module)
      potential_path == Div(file_dir, PathOfJoined(module_parts))
      local == PyCandidates(potential_path)
      init_path == Div(potential_path, Init__py)
      root == PyCandidates(PathOfJoined(module_parts))
  IN  IF root.kind # "none" THEN root
      ELSE IF local.kind # "none" THEN local
      ELSE IF Exists(Div(RepoPath, init_path)) THEN Found(Str(init_path))
      ELSE NotFound

\* _resolve_python_module
ResolvePythonModule(file_dir, module) ==
  LET module_parts == SplitDots(module)
      potential_path == Div(file_dir, PathOfJoined(module_parts))
      local == PyCandidates(potential_path)
      init_path == Div(potential_path, Init__py)
      root_path == PathOfJoined(module_parts)
  IN  IF local.kind # "none" THEN local
      ELSE IF Exists(Div(RepoPath, init_path)) THEN Found(Str(init_path))
      ELSE PyCandidates(root_path)

\* _resolve_python_relative
ResolvePythonRelative(file_dir, rel_module) ==
  IF Len(rel_module.segs) = 0
  THEN IF Exists(Div(RepoPath, Div(file_dir, Init__py)))
       THEN Found(Str(Div(file_dir, Init__py)))
       ELSE NotFound
  ELSE PyCandidates(Div(file_dir, PathOfJoined(SplitDots(rel_module))))

\* the three regular expressions of _extract_python_deps, tried in order
PyLine(file_dir, line) ==
  IF line.kind = "import" /\ Len(line.ref.segs) > 0
  THEN \* ^import\s+(\w+): \w+ stops at the first dot
       ResolvePythonModule(file_dir, Ref(0, <<line.ref.segs[1]>>))
  ELSE IF line.kind = "from" /\ line.ref.lead + Len(line.ref.segs) > 0
  THEN \* ^from\s+([\w.]+)\s+import: the class [\w.] takes leading dots too
       ResolvePythonModule(file_dir, line.ref)
  ELSE IF line.kind = "from" /\ line.ref.lead > 0
  THEN \* ^from\s+\.+([\w.]*)\s+import
       ResolvePythonRelative(file_dir, Ref(0, line.ref.segs))
  ELSE NotFound

(***************************************************************************)
(* JavaScript / TypeScript, Rust and Go resolvers                          *)
(***************************************************************************)
Dot == W(".")

\* str.startswith(".")
StartsWithDot(module) ==
  module.lead = 0 /\ Len(module.segs) > 0 /\ module.segs[1] \in {Dot, DotDot}

\* str.startswith("/")
StartsWithSlash(module) == module.lead > 0

\* "/" in package
HasSlash(package) == package.lead > 0 \/ Len(package.segs) > 1

\* Path(specifier): "." components are dropped, ".." components are kept
PathOfSpec(module) ==
  P(IF module.lead = 0 THEN "" ELSE IF module.lead = 2 THEN "//" ELSE "/",
    SelectSeq(module.segs, LAMBDA x : x # Dot))

JsExts == <<".js", ".ts", ".jsx", ".tsx", ".vue">>

RECURSIVE JsSuffixed(_, _)
JsSuffixed(potential_path, exts) ==
  IF Len(exts) = 0 THEN NotFound
  ELSE IF IsFile(Div(RepoPath, WithSuffix(potential_path, Head(exts))))
       THEN Found(Str(WithSuffix(potential_path, Head(exts))))
       ELSE JsSuffixed(potential_path, Tail(exts))

\* the loop `for ext in ["", ".js", ".ts", ".jsx", ".tsx", ".vue"]`
JsCandidates(potential_path) ==
  IF IsFile(Div(RepoPath, potential_path)) THEN Found(Str(potential_path))
  ELSE IF ~HasName(potential_path) THEN Raised
  ELSE JsSuffixed(potential_path, JsExts)

\* a package specifier is looked up like a path from the repository root
ResolveJsModuleBare(file_dir, module) ==
  IF StartsWithDot(module)
  THEN LET resolved == ResolvePath(Div(file_dir, PathOfSpec(module)), cwd)
       IN  IF ~IsRelativeTo(resolved, RepoPath) THEN NotFound
           ELSE JsCandidates(RelativeTo(resolved, RepoPath))
  ELSE JsCandidates(PathOfSpec(Ref(0, module.segs)))

\* _resolve_js_module
ResolveJsModule(file_dir, module) ==
  IF ~StartsWithDot(module) /\ ~StartsWithSlash(module) THEN NotFound
  ELSE IF StartsWithDot(module)
  THEN LET resolved == ResolvePath(Div(file_dir, PathOfSpec(module)), cwd)
       IN  IF ~IsRelativeTo(resolved, RepoPath) THEN NotFound
           ELSE JsCandidates(RelativeTo(resolved, RepoPath))
  ELSE JsCandidates(PathOfSpec(Ref(0, module.segs)))

\* Path(f"{module}{ext}"): the text is appended to the last component
Appended(segs, ext) ==
  [segs EXCEPT ![Len(segs)] = N(NameStr(segs[Len(segs)]), ext)]

\* the directory form <module>/mod.rs is tried before <module>.rs
ResolveRustModuleModFirst(file_dir, module) ==
  LET potential_path == Div(file_dir, P("", Appended(module.segs, ".rs")))
      mod_path == Div(Div(file_dir, P("", module.segs)), P("", <<N("mod", ".rs")>>))
  IN  IF Exists(Div(RepoPath, mod_path)) THEN Found(Str(mod_path))
      ELSE IF Exists(Div(RepoPath, potential_path)) THEN Found(Str(potential_path))
      ELSE NotFound

\* _resolve_rust_module
ResolveRustModule(file_dir, module) ==
  LET potential_path == Div(file_dir, P("", Appended(module.segs, ".rs")))
      mod_path == Div(Div(file_dir, P("", module.segs)), P("", <<N("mod", ".rs")>>))
  IN  IF Exists(Div(RepoPath, potential_path)) THEN Found(Str(potential_path))
      ELSE IF Exists(Div(RepoPath, mod_path)) THEN Found(Str(mod_path))
      ELSE NotFound

\* every import path is looked up from the importing file's directory and
\* from the repository root
ResolveGoPackageAny(file_dir, package) ==
  LET local == Div(file_dir, PathOfSpec(package))
      resolved == ResolvePath(local, cwd)
  IN  IF StartsWithDot(package) /\ ~IsRelativeTo(resolved, RepoPath) THEN Raised
      ELSE IF StartsWithDot(package)
      THEN IF IsFile(Div(RepoPath, RelativeTo(resolved, RepoPath)))
           THEN Found(Str(RelativeTo(resolved, RepoPath)))
           ELSE NotFound
      ELSE IF IsFile(Div(RepoPath, local)) THEN Found(Str(local))
      ELSE IF IsFile(Div(RepoPath, PathOfSpec(package))) THEN Found(Str(PathOfSpec(package)))
      ELSE NotFound

\* _resolve_go_package
ResolveGoPackage(file_dir, package) ==
  IF ~StartsWithDot(package) /\ ~HasSlash(package) THEN NotFound
  ELSE IF StartsWithDot(package)
  THEN LET resolved == ResolvePath(Div(file_dir, PathOfSpec(package)), cwd)
       IN  IF ~IsRelativeTo(resolved, RepoPath) THEN Raised
           ELSE IF IsFile(Div(RepoPath, RelativeTo(resolved, RepoPath)))
                THEN Found(Str(RelativeTo(resolved, RepoPath)))
                ELSE NotFound
  ELSE NotFound

(***************************************************************************)
(* Scanners.  Each gives the resolver results in the order the code makes  *)
(* the calls.                                                              *)
(***************************************************************************)
OfKind(lines, kind) == SelectSeq(lines, LAMBDA l : l.kind = kind)

PyResults(file_dir, lines) ==
  [i \in 1..Len(lines) |-> PyLine(file_dir, lines[i])]

\* re.finditer over the ES import pattern, then over the require pattern
JsResults(file_dir, lines) ==
  LET stmts == OfKind(lines, "import_from") \o OfKind(lines, "require")
  IN  [i \in 1..Len(stmts) |-> ResolveJsModule(file_dir, stmts[i].ref)]

\* re.finditer over the use pattern, then over the mod pattern
RustResults(file_dir, lines) ==
  LET stmts == OfKind(lines, "use") \o OfKind(lines, "mod")
  IN  [i \in 1..Len(stmts) |-> ResolveRustModule(file_dir, stmts[i].ref)]

\* the line loop of _extract_go_deps with its flag in_import_block
RECURSIVE GoBlockResults(_, _, _)
GoBlockResults(file_dir, lines, in_import_block) ==
  IF Len(lines) = 0 THEN <<>>
  ELSE LET l == Head(lines)
       IN  IF l.kind \in {"open", "open_inline"}
           THEN GoBlockResults(file_dir, Tail(lines), TRUE)
           ELSE IF ~in_import_block
           THEN GoBlockResults(file_dir, Tail(lines), FALSE)
           ELSE IF l.kind = "close"
           THEN GoBlockResults(file_dir, Tail(lines), FALSE)
           ELSE IF l.kind \in {"import", "quoted"}
           THEN <<ResolveGoPackage(file_dir, l.ref)>>
                  \o GoBlockResults(file_dir, Tail(lines), TRUE)
           ELSE GoBlockResults(file_dir, Tail(lines), TRUE)

\* the single-import pattern over the whole text, then the line loop
GoResults(file_dir, lines) ==
  LET single == OfKind(lines, "import")
  IN  [i \in 1..Len(single) |-> ResolveGoPackage(file_dir, single[i].ref)]
        \o GoBlockResults(file_dir, lines, FALSE)

Range(s) == {s[i] : i \in 1..Len(s)}

\* the lists that hold each member of S once
ListsOf(S) ==
  {s \in [1..Cardinality(S) -> S] : \A i, j \in 1..Cardinality(S) : s[i] = s[j] => i = j}

\* the list returned as it was built
ListRaw(deps) == {deps}

\* list(set(deps)): duplicates removed, in the set's iteration order
ListSet(deps) == ListsOf(Range(deps))

\* what an extractor does with the resolver results: an exception of a
\* resolver leaves the extractor, otherwise the found paths are returned
Outcome(results) ==
  LET found == SelectSeq(results, LAMBDA r : r.kind = "path")
  IN  [raised |-> \E i \in 1..Len(results) : results[i].kind = "raise",
       lists |-> ListSet([i \in 1..Len(found) |-> found[i].path])]

(***************************************************************************)
(* The repositories explored.  A scenario gives the files that may exist   *)
(* in the checkout (paths), those the snapshot may list (sources), the     *)
(* files that may exist outside the checkout (outside), the lines a source *)
(* file may hold (lines) and the working directories (cwds).               *)
(***************************************************************************)
Rel1(a) == P("", <<a>>)

Rel2(a, b) == P("", <<a, b>>)

Rel3(a, b, c) == P("", <<a, b, c>>)

Scenario(paths, sources, outside, lines, cwds) ==
  [paths |-> paths, sources |-> sources, outside |-> outside, lines |-> lines, cwds |-> cwds]

\* a.py and pkg/b.py
PyPaths == {Rel1(N("a", ".py")), Rel2(W("pkg"), N("b", ".py"))}

\* "import a", "from a import x"
PyLines ==
  {Line("import", Ref(0, <<W("a")>>)),
   Line("from", Ref(0, <<W("a")>>))}

\* src/app.ts and src/util.vue, which the snapshot may list
JsSources == {Rel2(W("src"), N("app", ".ts")), Rel2(W("src"), N("util", ".vue"))}

\* and src/util.ts
JsPaths == JsSources \cup {Rel2(W("src"), N("util", ".ts"))}

\* "import {x} from './util'", "require('./util')"
JsLines ==
  {Line("import_from", Ref(0, <<Dot, W("util")>>)),
   Line("require", Ref(0, <<Dot, W("util")>>))}

\* lib/main.rs and lib/sub.rs
RustPaths == {Rel2(W("lib"), N("main", ".rs")), Rel2(W("lib"), N("sub", ".rs"))}

\* "mod sub;", "use crate::sub;"
RustLines ==
  {Line("mod", Ref(0, <<W("sub")>>)),
   Line("use", Ref(0, <<W("sub")>>))}

\* cmd/main.go and cmd/helpers.go
GoPaths == {Rel2(W("cmd"), N("main", ".go")), Rel2(W("cmd"), N("helpers", ".go"))}

\* import "./helpers.go", import "fmt"
GoLines ==
  {Line("import", Ref(0, <<Dot, N("helpers", ".go")>>)),
   Line("import", Ref(0, <<W("fmt")>>))}

\* one small checkout per language; the working directory is varied where
\* a resolver calls Path.resolve()
Scenarios ==
  {Scenario(PyPaths, PyPaths, {}, PyLines, {RepoPath}),
   Scenario(JsPaths, JsSources, {}, JsLines, {RepoPath, OtherCwd}),
   Scenario(RustPaths, RustPaths, {}, RustLines, {RepoPath}),
   Scenario(GoPaths, GoPaths, {}, GoLines, {RepoPath, OtherCwd})}

\* Python in depth: pkg/b.py is analyzed in a checkout that may hold a.py,
\* pkg/a.py, pkg/__init__.py and pkg/a/__init__.py, on a machine that may
\* hold /a.py
PyFocusSources == {Rel2(W("pkg"), N("b", ".py"))}

PyFocusPaths ==
  PyFocusSources \cup
    {Rel1(N("a", ".py")), Rel2(W("pkg"), N("a", ".py")),
     Rel2(W("pkg"), N("__init__", ".py")), Rel3(W("pkg"), W("a"), N("__init__", ".py"))}

PyFocusOutside == {P("/", <<N("a", ".py")>>)}

\* "import a", "from a import x", "from . import x", "from .a import x",
\* "from ..a import x"
PyFocusLines ==
  {Line("import", Ref(0, <<W("a")>>)),
   Line("from", Ref(0, <<W("a")>>)),
   Line("from", Ref(1, <<>>)),
   Line("from", Ref(1, <<W("a")>>)),
   Line("from", Ref(2, <<W("a")>>))}

PyFocus == Scenario(PyFocusPaths, PyFocusSources, PyFocusOutside, PyFocusLines, {RepoPath})

\* Go in depth: cmd/main.go is analyzed in a checkout that may hold the
\* files cmd/helpers and cmd/util.go, next to a file /w/x outside it
GoFocusSources == {Rel2(W("cmd"), N("main", ".go")), Rel2(W("cmd"), N("util", ".go"))}

GoFocusPaths == GoFocusSources \cup {Rel2(W("cmd"), W("helpers"))}

GoFocusOutside == {P("/", <<W("w"), W("x")>>)}

\* import "./helpers", import "../../x", import "fmt"
GoFocusLines ==
  {Line("import", Ref(0, <<Dot, W("helpers")>>)),
   Line("import", Ref(0, <<DotDot, DotDot, W("x")>>)),
   Line("import", Ref(0, <<W("fmt")>>))}

GoFocus == Scenario(GoFocusPaths, GoFocusSources, GoFocusOutside, GoFocusLines, {RepoPath})

\* Python module lookup in depth: pkg/b.py is analyzed in a checkout that
\* may hold every candidate for the module a (pkg/a, pkg/a.py,
\* pkg/a/__init__.py, a, a.py) and pkg/a/b.py for the module a.b
PyOrderSources == {Rel2(W("pkg"), N("b", ".py"))}

PyOrderPaths ==
  PyOrderSources \cup
    {Rel2(W("pkg"), W("a")), Rel2(W("pkg"), N("a", ".py")),
     Rel3(W("pkg"), W("a"), N("__init__", ".py")),
     Rel1(W("a")), Rel1(N("a", ".py")),
     Rel3(W("pkg"), W("a"), N("b", ".py"))}

\* "from a import x", "import a.b", "from a.b import x"
PyOrderLines ==
  {Line("from", Ref(0, <<W("a")>>)),
   Line("import", Ref(0, <<W("a"), W("b")>>)),
   Line("from", Ref(0, <<W("a"), W("b")>>))}

PyOrder == Scenario(PyOrderPaths, PyOrderSources, {}, PyOrderLines, {RepoPath})

\* JavaScript in depth: src/app.ts is analyzed in a checkout that may hold
\* src/util.ts and files named like the package "react": react, src/react
\* and src/react.ts
JsFocusSources == {Rel2(W("src"), N("app", ".ts"))}

JsFocusPaths ==
  JsFocusSources \cup
    {Rel2(W("src"), N("util", ".ts")), Rel1(W("react")),
     Rel2(W("src"), W("react")), Rel2(W("src"), N("react", ".ts"))}

\* "import {x} from './util'", "import React from 'react'", "require('react')"
JsFocusLines ==
  {Line("import_from", Ref(0, <<Dot, W("util")>>)),
   Line("import_from", Ref(0, <<W("react")>>)),
   Line("require", Ref(0, <<W("react")>>))}

JsFocus == Scenario(JsFocusPaths, JsFocusSources, {}, JsFocusLines, {RepoPath})

\* Rust in depth: lib/mod.rs is analyzed in a checkout that may hold
\* lib/sub.rs, lib/sub/mod.rs, lib/a/b.rs and lib/a/b/mod.rs
RustFocusSources == {Rel2(W("lib"), N("mod", ".rs"))}

RustFocusPaths ==
  RustFocusSources \cup
    {Rel2(W("lib"), N("sub", ".rs")), Rel3(W("lib"), W("sub"), N("mod", ".rs")),
     Rel3(W("lib"), W("a"), N("b", ".rs")),
     P("", <<W("lib"), W("a"), W("b"), N("mod", ".rs")>>)}

\* "mod sub;", "use crate::sub;", "use crate::a::b;"
RustFocusLines ==
  {Line("mod", Ref(0, <<W("sub")>>)),
   Line("use", Ref(0, <<W("sub")>>)),
   Line("use", Ref(0, <<W("a"), W("b")>>))}

RustFocus == Scenario(RustFocusPaths, RustFocusSources, {}, RustFocusLines, {RepoPath})

\* JavaScript suffixes in depth: src/app.ts refers to './foo.service' and
\* './foo' in a checkout that may hold src/foo.service, src/foo.service.ts
\* and src/foo.ts
JsSuffixSources == {Rel2(W("src"), N("app", ".ts"))}

JsSuffixPaths ==
  JsSuffixSources \cup
    {Rel2(W("src"), N("foo", ".service")), Rel2(W("src"), N("foo.service", ".ts")),
     Rel2(W("src"), N("foo", ".ts"))}

\* "import {x} from './foo.service'", "require('./foo.service')",
\* "import {y} from './foo'"
JsSuffixLines ==
  {Line("import_from", Ref(0, <<Dot, N("foo", ".service")>>)),
   Line("require", Ref(0, <<Dot, N("foo", ".service")>>)),
   Line("import_from", Ref(0, <<Dot, W("foo")>>))}

JsSuffix == Scenario(JsSuffixPaths, JsSuffixSources, {}, JsSuffixLines, {RepoPath})

\* Go package paths in depth: cmd/main.go imports "fmt", "cmd/helpers" and
\* "./helpers" in a checkout that may hold files of these very names: fmt,
\* cmd/fmt and cmd/helpers
GoPackageSources == {Rel2(W("cmd"), N("main", ".go"))}

GoPackagePaths ==
  GoPackageSources \cup
    {Rel1(W("fmt")), Rel2(W("cmd"), W("fmt")), Rel2(W("cmd"), W("helpers"))}

\* import "fmt", import "cmd/helpers", import "./helpers"
GoPackageLines ==
  {Line("import", Ref(0, <<W("fmt")>>)),
   Line("import", Ref(0, <<W("cmd"), W("helpers")>>)),
   Line("import", Ref(0, <<Dot, W("helpers")>>))}

GoPackage == Scenario(GoPackagePaths, GoPackageSources, {}, GoPackageLines, {RepoPath})

\* Go import blocks in depth: cmd/main.go holds lines that open and close
\* import blocks and lines with a quoted "./helpers", in a checkout that may
\* hold cmd/helpers
GoBlockSources == {Rel2(W("cmd"), N("main", ".go"))}

GoBlockPaths == GoBlockSources \cup {Rel2(W("cmd"), W("helpers"))}

\* 'import (', 'import ("fmt")', ')', ') // end', and a line with the
\* quoted string "./helpers" (inside a block an import, outside it any
\* statement such as 'x := "./helpers"')
GoBlockLines ==
  {Line("open", Ref(0, <<>>)),
   Line("open_inline", Ref(0, <<W("fmt")>>)),
   Line("close", Ref(0, <<>>)),
   Line("close_comment", Ref(0, <<>>)),
   Line("quoted", Ref(0, <<Dot, W("helpers")>>))}

GoBlock == Scenario(GoBlockPaths, GoBlockSources, {}, GoBlockLines, {RepoPath})

\* every repo-relative path a snapshot of the exploration may list
RelPaths ==
  PyPaths \cup JsSources \cup RustPaths \cup GoPaths \cup PyFocusSources \cup GoFocusSources
    \cup JsFocusSources \cup RustFocusSources \cup PyOrderSources
    \cup JsSuffixSources \cup GoPackageSources \cup GoBlockSources

\* Path(rel_path): the path whose text is s
ParsePath(s) == CHOOSE p \in RelPaths : Str(p) = s

\* RepoManager._language_for
LanguageFor(rel_path) ==
  LET ext == ParsePath(rel_path).parts[Len(ParsePath(rel_path).parts)].suffix
  IN  CASE ext = ".py" -> "python"
        [] ext = ".md" -> "markdown"
        [] ext = ".js" -> "javascript"
        [] ext \in {".ts", ".tsx"} -> "typescript"
        [] ext = ".rs" -> "rust"
        [] ext = ".go" -> "go"
        [] ext = ".java" -> "java"
        [] ext = ".cs" -> "csharp"
        [] OTHER -> "text"

\* FileRecord as RepoManager._collect_files yields it (size_bytes is never
\* read by the analyzer and is left out)
FileRecord(p) == [rel_path |-> Str(p), language |-> LanguageFor(Str(p))]

\* DependencyAnalyzer._should_analyze
ShouldAnalyze(record) ==
  record.language \in {"python", "javascript", "typescript", "rust", "go"}

\* DependencyAnalyzer._extract_dependencies
ExtractDependencies(record, lines) ==
  LET file_dir == Parent(ParsePath(record.rel_path))
  IN  CASE record.language = "python" -> Outcome(PyResults(file_dir, lines))
        [] record.language \in {"javascript", "typescript"} ->
             Outcome(JsResults(file_dir, lines))
        [] record.language = "rust" -> Outcome(RustResults(file_dir, lines))
        [] record.language = "go" -> Outcome(GoResults(file_dir, lines))
        [] OTHER -> Outcome(<<>>)

\* the sequences over S of length at most n
RECURSIVE SeqsUpTo(_, _)
SeqsUpTo(S, n) ==
  IF n = 0 THEN {<<>>}
  ELSE SeqsUpTo(S, n - 1) \cup {Append(s, x) : s \in {t \in SeqsUpTo(S, n - 1) : Len(t) = n - 1}, x \in S}

\* what read_text(encoding="utf-8") can meet for an existing file of at
\* most n lines
ContentsOf(lines, n) ==
  {[status |-> "text", lines |-> l] : l \in SeqsUpTo(lines, n)}
    \cup {[status |-> "undecodable", lines |-> <<>>], [status |-> "denied", lines |-> <<>>]}

\* what read_text(encoding="utf-8") can meet for an existing file
Contents(lines) == ContentsOf(lines, MaxLines)

\* the lists without repetition over the members of S
Snapshots(S) == UNION {ListsOf(T) : T \in SUBSET S}

\* file_path.read_text(encoding="utf-8") for repo_path / rel_path
ReadText(rel_path) ==
  IF ~IsFile(Div(RepoPath, ParsePath(rel_path))) THEN "FileNotFoundError"
  ELSE IF content[rel_path].status = "undecodable" THEN "UnicodeDecodeError"
  ELSE IF content[rel_path].status = "denied" THEN "PermissionError"
  ELSE "ok"

\* a defaultdict(list) holding nothing
EmptyMap == [k \in {} |-> <<>>]

\* github_actions_mode is not running (the analyzer was built by cli_mode)
GhOff ==
  [pc |-> "off", has_docs |-> FALSE, event_name |-> "push", head_ref |-> FALSE,
   git |-> FALSE, diff |-> <<>>, collected |-> <<>>,
   changed_bound |-> FALSE, changed_files |-> <<>>,
   filter_bound |-> FALSE, filter_changed |-> FALSE]

\* no fork is being requested
ForkOff ==
  [pc |-> "off", same_owner |-> FALSE, token |-> FALSE, post |-> 0,
   answers |-> <<>>, result |-> "none", raised_by |-> "none"]

\* DependencyAnalyzer.__init__ on a prepared checkout: the snapshot was
\* collected (and possibly filtered) earlier, the disk is what it is now (no
\* regular file is also a directory that holds another file)
InitOver(sc, texts) ==
  \E onDisk \in SUBSET sc.paths, elsewhere \in SUBSET sc.outside,
     snapshot \in Snapshots(sc.sources) :
    /\ \A f, g \in onDisk : ~(Len(f.parts) < Len(g.parts) /\ IsPrefix(f.parts, g.parts))
    /\ disk = {Div(RepoPath, q) : q \in onDisk} \cup elsewhere
    /\ files = [i \in DOMAIN snapshot |-> FileRecord(snapshot[i])]
    /\ content \in [{Str(q) : q \in {r \in onDisk \cap Range(snapshot) :
                                        ShouldAnalyze(FileRecord(r))}}
                      -> texts]
    /\ cwd \in sc.cwds
    /\ dependencies = EmptyMap
    /\ dependents = EmptyMap
    /\ pc = "idle"
    /\ idx = 0
    /\ runs = 0
    /\ ret = [op |-> "none", arg |-> "", val |-> <<>>]
    /\ firstGraph = <<>>
    /\ gh = GhOff
    /\ fork = ForkOff

InitWith(sc) == InitOver(sc, Contents(sc.lines))

Init == \E sc \in Scenarios : InitWith(sc)

\* the checkouts whose language has a resolver that calls Path.resolve()
\* (JavaScript/TypeScript and Go), in either working directory
InitCwd == \E sc \in {x \in Scenarios : Cardinality(x.cwds) > 1} : InitWith(sc)

InitPy == InitWith(PyFocus)

InitGo == InitWith(GoFocus)

InitJs == InitWith(JsFocus)

InitRust == InitWith(RustFocus)

InitPyOrder == InitWith(PyOrder)

InitJsSuffix == InitWith(JsSuffix)

InitGoPackage == InitWith(GoPackage)

InitGoBlock == InitOver(GoBlock, ContentsOf(GoBlock.lines, MaxBlockLines))

(***************************************************************************)
(* DependencyAnalyzer                                                      *)
(***************************************************************************)
\* d[k] = v on a dict
Put(m, k, v) == [x \in DOMAIN m \cup {k} |-> IF x = k THEN v ELSE m[x]]

\* m[k] on a plain dict: a key the dict lacks is a KeyError
GetStrict(m, k) == IF k \in DOMAIN m THEN m[k] ELSE <<"KeyError">>

\* dict.get(k, [])
Get(m, k) == IF k \in DOMAIN m THEN m[k] ELSE <<>>

\* only the targets the entry does not hold yet are stored
SetDependenciesNew(m, rel_path, deps) ==
  Put(m, rel_path, SelectSeq(deps, LAMBDA d : d \notin Range(Get(m, rel_path))))

\* a file is not stored among its own dependencies
SetDependenciesNoSelf(m, rel_path, deps) ==
  Put(m, rel_path, SelectSeq(deps, LAMBDA d : d # rel_path))

\* self.dependencies[record.rel_path] = deps
SetDependencies(m, rel_path, deps) == Put(m, rel_path, deps)

\* self.dependents[dep] = [record.rel_path]: the entry is replaced
RECURSIVE AddDependentsOverwrite(_, _, _)
AddDependentsOverwrite(m, rel_path, deps) ==
  IF Len(deps) = 0 THEN m
  ELSE AddDependentsOverwrite(Put(m, Head(deps), <<rel_path>>), rel_path, Tail(deps))

\* only the first dependent of a target is stored
RECURSIVE AddDependentsOnce(_, _, _)
AddDependentsOnce(m, rel_path, deps) ==
  IF Len(deps) = 0 THEN m
  ELSE AddDependentsOnce(IF Head(deps) \in DOMAIN m THEN m
                         ELSE Put(m, Head(deps), <<rel_path>>),
                         rel_path, Tail(deps))

\* the entry is stored whether or not a reference resolved
StoreDependenciesAlways(m, rel_path, deps) == SetDependencies(m, rel_path, deps)

\* if deps: self.dependencies[record.rel_path] = deps
StoreDependencies(m, rel_path, deps) ==
  IF Len(deps) > 0 THEN SetDependencies(m, rel_path, deps) ELSE m

\* a file is not appended to its own reverse entry
RECURSIVE AddDependentsOthers(_, _, _)
AddDependentsOthers(m, rel_path, deps) ==
  IF Len(deps) = 0 THEN m
  ELSE AddDependentsOthers(IF Head(deps) = rel_path THEN m
                           ELSE Put(m, Head(deps), Append(Get(m, Head(deps)), rel_path)),
                           rel_path, Tail(deps))

\* for dep in deps: self.dependents[dep].append(record.rel_path)
RECURSIVE AddDependents(_, _, _)
AddDependents(m, rel_path, deps) ==
  IF Len(deps) = 0 THEN m
  ELSE AddDependents(Put(m, Head(deps), Append(Get(m, Head(deps)), rel_path)),
                     rel_path, Tail(deps))

\* except (UnicodeDecodeError, FileNotFoundError): continue
CaughtReadErrors == {"UnicodeDecodeError", "FileNotFoundError"}

\* a map with each list taken as a set
AsSets(m) == [k \in DOMAIN m |-> Range(m[k])]

NoReturn == [op |-> "none", arg |-> "", val |-> <<>>]

\* a call of analyze() enters the for loop
Analyze ==
  /\ pc \in {"idle", "done"}
  /\ runs < MaxRuns
  /\ pc' = "analyzing"
  /\ idx' = 1
  /\ runs' = runs + 1
  /\ ret' = NoReturn
  /\ UNCHANGED <<fsVars, graphVars, firstGraph, procVars>>

\* one iteration of the for loop of analyze()
AnalyzeFile ==
  /\ pc = "analyzing"
  /\ idx <= Len(files)
  /\ LET record == files[idx]
         err == ReadText(record.rel_path)
     IN  IF ~ShouldAnalyze(record) \/ err \in CaughtReadErrors
         THEN idx' = idx + 1 /\ UNCHANGED <<pc, graphVars>>
         ELSE IF err # "ok"
         THEN pc' = "raised" /\ UNCHANGED <<idx, graphVars>>
         ELSE LET out == ExtractDependencies(record, content[record.rel_path].lines)
              IN  IF out.raised
                  THEN pc' = "raised" /\ UNCHANGED <<idx, graphVars>>
                  ELSE \E deps \in out.lists :
                         /\ dependencies' =
                              StoreDependencies(dependencies, record.rel_path, deps)
                         /\ dependents' = AddDependents(dependents, record.rel_path, deps)
                         /\ idx' = idx + 1
                         /\ UNCHANGED pc
  /\ UNCHANGED <<fsVars, runs, ret, firstGraph, procVars>>

\* the for loop is exhausted and analyze() returns
AnalyzeReturn ==
  /\ pc = "analyzing"
  /\ idx > Len(files)
  /\ pc' = "done"
  /\ firstGraph' = IF runs = 1 THEN <<AsSets(dependencies), AsSets(dependents)>>
                   ELSE firstGraph
  /\ UNCHANGED <<fsVars, graphVars, idx, runs, ret, procVars>>

\* m[k] on a defaultdict(list): a key the map lacks is inserted
AfterGetItem(m, k) == Put(m, k, Get(m, k))

\* the map after m.get(k, []): get never inserts, not even on a defaultdict
AfterGet(m, k) == m

\* the paths a caller asks about: those of the snapshot and an unknown one
QueryPaths == {files[i].rel_path : i \in DOMAIN files} \cup {"missing.py"}

\* get_file_dependencies
GetFileDependencies(file_path) ==
  /\ pc \in {"idle", "done", "raised"}
  /\ ret' = [op |-> "dependencies", arg |-> file_path, val |-> Get(dependencies, file_path)]
  /\ dependencies' = AfterGet(dependencies, file_path)
  /\ UNCHANGED <<fsVars, dependents, pc, idx, runs, firstGraph, procVars>>

\* get_file_dependents
GetFileDependents(file_path) ==
  /\ pc \in {"idle", "done", "raised"}
  /\ ret' = [op |-> "dependents", arg |-> file_path, val |-> Get(dependents, file_path)]
  /\ dependents' = AfterGet(dependents, file_path)
  /\ UNCHANGED <<fsVars, dependencies, pc, idx, runs, firstGraph, procVars>>

\* the program is run again on the same checkout from another working
\* directory: cli_mode builds a new DependencyAnalyzer for the same snapshot
Restart ==
  /\ pc \in {"done", "raised"}
  /\ runs < MaxRuns
  /\ cwd' \in {RepoPath, OtherCwd} \ {cwd}
  /\ dependencies' = EmptyMap
  /\ dependents' = EmptyMap
  /\ pc' = "idle"
  /\ idx' = 0
  /\ ret' = NoReturn
  /\ UNCHANGED <<disk, content, files, runs, firstGraph, procVars>>

Next ==
  \/ Analyze
  \/ AnalyzeFile
  \/ AnalyzeReturn
  \/ \E file_path \in QueryPaths : GetFileDependencies(file_path)
  \/ \E file_path \in QueryPaths : GetFileDependents(file_path)

NextCwd == Next \/ Restart

Spec == Init /\ [][Next]_vars

SpecCwd == InitCwd /\ [][NextCwd]_vars

(***************************************************************************)
(* github_actions_mode: changed-file detection and the hand-over to the   *)
(* analyzer.  changed_files and filter_changed are local variables of the *)
(* function; reading one that no statement has bound raises               *)
(* UnboundLocalError, a NameError.                                        *)
(***************************************************************************)
\* "import a"
GhLines == {Line("import", Ref(0, <<W("a")>>))}

\* what get_changed_files can return for a checkout whose collected files
\* are fs: nothing, one collected file, or a path that was not collected
GhDiffs(fs) == {<<>>, <<"missing.py">>} \cup {<<fs[i].rel_path>> : i \in DOMAIN fs}

\* files = [f for f in files if f.rel_path in changed_set], done only
\* `if filter_changed and changed_files`
FilterFiles(fs, filter_changed, changed_files) ==
  IF filter_changed /\ changed_files # <<>>
  THEN SelectSeq(fs, LAMBDA f : f.rel_path \in Range(changed_files))
  ELSE fs

\* github_actions_mode has built its RepoManager; the workspace holds a
\* checkout whose files _collect_files will list
InitGh ==
  \E onDisk \in SUBSET PyPaths, has_docs \in BOOLEAN, head_ref \in BOOLEAN,
     git \in BOOLEAN, event_name \in {"pull_request", "push"} :
    \E collected \in ListsOf(onDisk) :
      \E diff \in GhDiffs([i \in DOMAIN collected |-> FileRecord(collected[i])]) :
        /\ disk = {Div(RepoPath, q) : q \in onDisk}
        /\ files = <<>>
        /\ content \in [{Str(q) : q \in {r \in onDisk : ShouldAnalyze(FileRecord(r))}}
                          -> ContentsOf(GhLines, 1)]
        /\ cwd = RepoPath
        /\ dependencies = EmptyMap
        /\ dependents = EmptyMap
        /\ pc = "unbuilt"
        /\ idx = 0
        /\ runs = 0
        /\ ret = NoReturn
        /\ firstGraph = <<>>
        /\ gh = [pc |-> "detect", has_docs |-> has_docs, event_name |-> event_name,
                  head_ref |-> head_ref, git |-> git, diff |-> diff,
                  collected |-> [i \in DOMAIN collected |-> FileRecord(collected[i])],
                  changed_bound |-> FALSE, changed_files |-> <<>>,
                  filter_bound |-> FALSE, filter_changed |-> FALSE]
        /\ fork = ForkOff

\* `if has_docs:` and the statements that assign changed_files
GhChangedFiles ==
  /\ gh.pc = "detect"
  /\ gh' = IF ~gh.has_docs
            THEN [gh EXCEPT !.pc = "prepare"]
            ELSE IF gh.event_name = "pull_request" /\ ~gh.head_ref
            THEN [gh EXCEPT !.pc = "decide"]
            ELSE [gh EXCEPT !.pc = "decide", !.changed_bound = TRUE,
                            !.changed_files = gh.diff]
  /\ UNCHANGED <<fsVars, graphVars, pc, idx, runs, ret, firstGraph, fork>>

\* `if changed_files: filter_changed = True`
GhFilterChanged ==
  /\ gh.pc = "decide"
  /\ gh' = IF ~gh.changed_bound
            THEN [gh EXCEPT !.pc = "NameError"]
            ELSE IF gh.changed_files # <<>>
            THEN [gh EXCEPT !.pc = "prepare", !.filter_bound = TRUE,
                            !.filter_changed = TRUE]
            ELSE [gh EXCEPT !.pc = "prepare"]
  /\ UNCHANGED <<fsVars, graphVars, pc, idx, runs, ret, firstGraph, fork>>

\* the first read of a local variable that is not bound, in
\* `if filter_changed and changed_files:` (workspace with .git) or in the
\* arguments of prepare_repo(changed_files=..., filter_changed=...)
GhReadsUnbound ==
  IF gh.git
  THEN ~gh.filter_bound \/ (gh.filter_changed /\ ~gh.changed_bound)
  ELSE ~gh.changed_bound \/ ~gh.filter_bound

\* the file list is collected and filtered, RepoInfo and the
\* DependencyAnalyzer are built (the fork owner is the source owner, so
\* prepare_repo asks for no fork)
GhPrepare ==
  /\ gh.pc = "prepare"
  /\ IF GhReadsUnbound
     THEN /\ gh' = [gh EXCEPT !.pc = "NameError"]
          /\ UNCHANGED <<files, pc>>
     ELSE /\ gh' = [gh EXCEPT !.pc = "analysis"]
          /\ files' = FilterFiles(gh.collected, gh.filter_changed, gh.changed_files)
          /\ pc' = "idle"
  /\ UNCHANGED <<disk, content, cwd, graphVars, idx, runs, ret, firstGraph, fork>>

NextGh ==
  \/ GhChangedFiles
  \/ GhFilterChanged
  \/ GhPrepare
  \/ Next

SpecGh == InitGh /\ [][NextGh]_vars

(***************************************************************************)
(* RepoManager._ensure_fork and _wait_for_fork.  Each request of the      *)
(* httpx session either answers with a status code or raises a transport  *)
(* error (httpx.Client(timeout=30)), which neither method catches.        *)
(***************************************************************************)
\* for _ in range(10)
ForkPolls == 10

\* status codes the fork request can answer with
PostCodes == {201, 202, 403}

\* status codes a poll of the fork's repository can answer with
PollCodes == {200, 403, 404}

\* prepare_repo calls _ensure_fork; the owners are equal or not, a token is
\* configured or not; no checkout exists yet
InitFork ==
  \E same_owner \in BOOLEAN, token \in BOOLEAN :
    /\ disk = {}
    /\ files = <<>>
    /\ content = <<>>
    /\ cwd = RepoPath
    /\ dependencies = EmptyMap
    /\ dependents = EmptyMap
    /\ pc = "unbuilt"
    /\ idx = 0
    /\ runs = 0
    /\ ret = NoReturn
    /\ firstGraph = <<>>
    /\ gh = GhOff
    /\ fork = [pc |-> "ensure", same_owner |-> same_owner, token |-> token,
                post |-> 0, answers |-> <<>>, result |-> "none",
                raised_by |-> "none"]

\* _ensure_fork up to the fork request
EnsureFork ==
  /\ fork.pc = "ensure"
  /\ fork' = IF fork.same_owner
              THEN [fork EXCEPT !.pc = "returned", !.result = "repo_url"]
              ELSE IF ~fork.token
              THEN [fork EXCEPT !.pc = "RuntimeError", !.raised_by = "_ensure_fork"]
              ELSE [fork EXCEPT !.pc = "posting"]
  /\ UNCHANGED <<fsVars, graphVars, pc, idx, runs, ret, firstGraph, gh>>

\* _fork_payload's request and the POST: a status other than 202 and 201
\* raises RuntimeError, otherwise _wait_for_fork is entered
ForkRequest ==
  /\ fork.pc = "posting"
  /\ \/ fork' = [fork EXCEPT !.pc = "HTTPError", !.raised_by = "session"]
     \/ \E code \in PostCodes :
          fork' = IF code \notin {202, 201}
                  THEN [fork EXCEPT !.post = code, !.pc = "RuntimeError",
                                    !.raised_by = "_ensure_fork"]
                  ELSE [fork EXCEPT !.post = code, !.pc = "polling"]
  /\ UNCHANGED <<fsVars, graphVars, pc, idx, runs, ret, firstGraph, gh>>

\* the loop of _wait_for_fork has an iteration left after n polls
PollsLeftInclusive(n) == n <= ForkPolls

\* the loop of _wait_for_fork has an iteration left after n polls
PollsLeft(n) == n < ForkPolls

\* one iteration of the loop of _wait_for_fork: a poll; status 200 returns
\* from _wait_for_fork and _ensure_fork returns fork_url, any other status
\* sleeps and goes on
WaitForFork ==
  /\ fork.pc = "polling"
  /\ PollsLeft(Len(fork.answers))
  /\ \/ fork' = [fork EXCEPT !.pc = "HTTPError", !.raised_by = "session"]
     \/ \E code \in PollCodes :
          fork' = IF code = 200
                  THEN [fork EXCEPT !.answers = Append(@, code), !.pc = "returned",
                                    !.result = "fork_url"]
                  ELSE [fork EXCEPT !.answers = Append(@, code)]
  /\ UNCHANGED <<fsVars, graphVars, pc, idx, runs, ret, firstGraph, gh>>

\* the loop is exhausted: raise RuntimeError
WaitForForkRaise ==
  /\ fork.pc = "polling"
  /\ ~PollsLeft(Len(fork.answers))
  /\ fork' = [fork EXCEPT !.pc = "RuntimeError", !.raised_by = "_wait_for_fork"]
  /\ UNCHANGED <<fsVars, graphVars, pc, idx, runs, ret, firstGraph, gh>>

NextFork ==
  \/ EnsureFork
  \/ ForkRequest
  \/ WaitForFork
  \/ WaitForForkRaise

\* the method runs on: a request answers or fails within the client's
\* timeout, and time.sleep(2) returns
SpecFork == InitFork /\ [][NextFork]_vars /\ WF_vars(NextFork)

SpecPy == InitPy /\ [][Next]_vars

SpecGo == InitGo /\ [][Next]_vars

SpecJs == InitJs /\ [][Next]_vars

SpecRust == InitRust /\ [][Next]_vars

SpecPyOrder == InitPyOrder /\ [][Next]_vars

SpecJsSuffix == InitJsSuffix /\ [][Next]_vars

SpecGoPackage == InitGoPackage /\ [][Next]_vars

SpecGoBlock == InitGoBlock /\ [][Next]_vars

(***************************************************************************)
(* Properties                                                              *)
(***************************************************************************)
\* the rel_path of the snapshot's records
SnapshotPaths == {files[i].rel_path : i \in DOMAIN files}

\* the members of the forward entries
Targets == UNION {Range(dependencies[a]) : a \in DOMAIN dependencies}

\* the members of the reverse entries
Sources == UNION {Range(dependents[b]) : b \in DOMAIN dependents}

\* every path the graph or the snapshot knows, and an unknown one
Nodes ==
  SnapshotPaths \cup DOMAIN dependencies \cup DOMAIN dependents \cup Targets \cup Sources
    \cup {"missing.py"}

\* the record of the snapshot with the given rel_path
RecordOf(rel_path) == files[CHOOSE i \in DOMAIN files : files[i].rel_path = rel_path]

\* the targets one file contributes, from its own text and the disk alone
FileTargets(record) ==
  IF ShouldAnalyze(record) /\ ReadText(record.rel_path) = "ok"
  THEN UNION {Range(l) : l \in ExtractDependencies(record, content[record.rel_path].lines).lists}
  ELSE {}

\* the forward map a set of records gives, whatever their order
ExpectedForward ==
  [a \in {r \in SnapshotPaths : FileTargets(RecordOf(r)) # {}} |-> FileTargets(RecordOf(a))]

\* its transpose
ExpectedReverse ==
  [b \in UNION {FileTargets(RecordOf(r)) : r \in SnapshotPaths}
     |-> {r \in SnapshotPaths : b \in FileTargets(RecordOf(r))}]

\* C1: once analyze() has returned, for all paths a and b, b is among
\* get_file_dependencies(a) if and only if a is among get_file_dependents(b).
C1_Symmetry ==
  pc = "done" =>
    \A a, b \in Nodes :
      (b \in Range(Get(dependencies, a))) <=> (a \in Range(Get(dependents, b)))

\* analyze() has returned and two different files depend on one target
C1_Witness ==
  /\ pc = "done"
  /\ \E a, b \in DOMAIN dependencies :
       a # b /\ Range(dependencies[a]) \cap Range(dependencies[b]) # {}

\* C2: once analyze() has returned, every member of a forward entry and
\* every key of the reverse map is the rel_path of a record of the snapshot.
C2_Containment ==
  pc = "done" => (Targets \cup DOMAIN dependents) \subseteq SnapshotPaths

\* the text of every path that lies inside the checkout
CheckoutTexts ==
  {Str(q) : q \in UNION {sc.paths : sc \in Scenarios} \cup PyFocusPaths \cup GoFocusPaths
                   \cup JsFocusPaths \cup RustFocusPaths \cup PyOrderPaths
                   \cup JsSuffixPaths \cup GoPackagePaths
                   \cup GoBlockPaths}

\* C3: no edge points outside the repository root: every member of a
\* forward entry is the repo-relative path of a location inside the checkout.
C3_NoEscape == Targets \subseteq CheckoutTexts

\* the reference, joined to the file's directory and normalized, lies
\* outside the repository root
LeavesRepo(file_dir, ref) ==
  /\ StartsWithDot(ref)
  /\ ~IsRelativeTo(ResolvePath(Div(file_dir, PathOfSpec(ref)), cwd), RepoPath)

\* C4: analyze() never stops with an exception at a readable Go file that
\* holds a relative import leaving the repository: such an import is
\* unresolved and the loop goes on.
C4_GoEscapeUnresolved ==
  ~(/\ pc = "raised"
    /\ files[idx].language = "go"
    /\ ReadText(files[idx].rel_path) = "ok"
    /\ \E l \in Range(content[files[idx].rel_path].lines) :
         LeavesRepo(Parent(ParsePath(files[idx].rel_path)), l.ref))

\* C5: scanning and resolving a readable file never raises: analyze() stops
\* with an exception only at a file whose content could not be read.
C5_NeverRaises == pc = "raised" => ReadText(files[idx].rel_path) # "ok"

\* C6: a file whose read fails (missing, permission denied, not UTF-8) is
\* skipped: it gets no forward entry and analyze() does not stop at it.
C6_ReadFailureSkips ==
  \A i \in DOMAIN files :
    (ShouldAnalyze(files[i]) /\ ReadText(files[i].rel_path) # "ok") =>
      /\ files[i].rel_path \notin DOMAIN dependencies
      /\ ~(pc = "raised" /\ idx = i)

\* C7: a forward entry holds each target at most once.
C7_Deduplication ==
  \A a \in DOMAIN dependencies :
    \A i, j \in DOMAIN dependencies[a] :
      dependencies[a][i] = dependencies[a][j] => i = j

\* a file with two different statements has a forward entry of one target
C7_Witness ==
  \E a \in DOMAIN dependencies :
    /\ a \in DOMAIN content
    /\ Len(content[a].lines) = 2
    /\ content[a].lines[1] # content[a].lines[2]
    /\ Len(dependencies[a]) = 1

\* C8: a second (and any later) analyze() over the unchanged snapshot and
\* files leaves forward and reverse maps equal, as sets per key, to those
\* of the first run.
C8_Idempotence ==
  (pc = "done" /\ runs >= 2) =>
    <<AsSets(dependencies), AsSets(dependents)>> = firstGraph

\* the second analyze() has returned with a graph that has edges
C8_Witness == pc = "done" /\ runs = 2 /\ DOMAIN dependencies # {}

\* C9: the maps analyze() returns with are, as sets per key, those given by
\* the set of records and the files' contents, whatever the order of
\* repo_info.files.
C9_OrderIndependence ==
  pc = "done" =>
    /\ AsSets(dependencies) = ExpectedForward
    /\ AsSets(dependents) = ExpectedReverse

\* analyze() has returned with both files of a snapshot of two among the
\* dependents of one target
C9_Witness ==
  /\ pc = "done"
  /\ Len(files) = 2
  /\ \E b \in DOMAIN dependents :
       Range(dependents[b]) = {files[1].rel_path, files[2].rel_path}

\* C10: when a reference of a file resolves to the file itself, analyze()
\* returns with the file in its own forward entry and in its own reverse
\* entry.
C10_SelfLoop ==
  pc = "done" =>
    \A a \in SnapshotPaths :
      a \in FileTargets(RecordOf(a)) =>
        /\ a \in Range(Get(dependencies, a))
        /\ a \in Range(Get(dependents, a))

\* analyze() has returned with the edge a.py -> a.py in both maps
C10_Witness ==
  /\ pc = "done"
  /\ "a.py" \in Range(Get(dependencies, "a.py"))
  /\ "a.py" \in Range(Get(dependents, "a.py"))

\* C11: once analyze() has returned, a record whose language is not
\* analyzed, and a record whose content could not be read, is no node of the
\* graph: no key of the forward map, no member of a forward entry, no key of
\* the reverse map.
C11_SkippedNotNodes ==
  pc = "done" =>
    \A i \in DOMAIN files :
      (~ShouldAnalyze(files[i]) \/ ReadText(files[i].rel_path) # "ok") =>
        /\ files[i].rel_path \notin DOMAIN dependencies
        /\ files[i].rel_path \notin Targets
        /\ files[i].rel_path \notin DOMAIN dependents

\* C12: a query about a path that is no key of the map it reads returns the
\* empty list, in every state in which a query can be made.
C12_EmptyForUnknown ==
  /\ (ret.op = "dependencies" /\ ret.arg \notin DOMAIN dependencies) => ret.val = <<>>
  /\ (ret.op = "dependents" /\ ret.arg \notin DOMAIN dependents) => ret.val = <<>>

\* after an analyze() that found edges, get_file_dependents was asked about
\* a file of the snapshot that nothing depends on
C12_Witness ==
  /\ pc = "done"
  /\ DOMAIN dependents # {}
  /\ ret.op = "dependents"
  /\ ret.arg \in SnapshotPaths \ DOMAIN dependents
  /\ ret.val = <<>>

\* C13: no key of the forward map is mapped to an empty list.
C13_NoEmptyEntry == \A a \in DOMAIN dependencies : Len(dependencies[a]) > 0

\* analyze() has returned with edges, and a readable file whose statements
\* all failed to resolve is no key of the forward map
C13_Witness ==
  /\ pc = "done"
  /\ DOMAIN dependencies # {}
  /\ \E i \in DOMAIN files :
       /\ ShouldAnalyze(files[i])
       /\ ReadText(files[i].rel_path) = "ok"
       /\ Len(content[files[i].rel_path].lines) > 0
       /\ FileTargets(files[i]) = {}
       /\ files[i].rel_path \notin DOMAIN dependencies

\* "from . import <name>": leading dots and nothing after them
IsFromDots(l) == l.kind = "from" /\ l.ref.lead >= 1 /\ Len(l.ref.segs) = 0

\* C14: a readable Python file in directory D that holds "from . import
\* <name>" gets the edge to D/__init__.py when that file exists and no edge
\* for the line otherwise; analyze() does not stop at a file made of such
\* lines.
C14_FromDotInit ==
  \A i \in DOMAIN files :
    LET rel == files[i].rel_path
        init_path == Div(Parent(ParsePath(rel)), Init__py)
        lines == content[rel].lines
    IN  (files[i].language = "python" /\ ReadText(rel) = "ok"
           /\ \E l \in Range(lines) : IsFromDots(l)) =>
          /\ (\A l \in Range(lines) : IsFromDots(l)) => ~(pc = "raised" /\ idx = i)
          /\ (pc = "done" /\ IsFile(Div(RepoPath, init_path))) =>
                Str(init_path) \in Range(Get(dependencies, rel))
          /\ (pc = "done" /\ ~IsFile(Div(RepoPath, init_path))
                /\ \A l \in Range(lines) : IsFromDots(l)) =>
                rel \notin DOMAIN dependencies

\* the first path of a list that is a regular file of the checkout, as a
\* set of at most one path text
RECURSIVE FirstFile(_)
FirstFile(cands) ==
  IF Len(cands) = 0 THEN {}
  ELSE IF IsFile(Div(RepoPath, Head(cands))) THEN {Str(Head(cands))}
  ELSE FirstFile(Tail(cands))

\* D/S normalized against the repository root
InRepo(file_dir, ref) == ResolvePath(Div(file_dir, PathOfSpec(ref)), RepoPath)

\* D/S, D/S.js, D/S.ts, D/S.jsx, D/S.tsx, D/S.vue
JsNamed(file_dir, ref) ==
  LET target == RelativeTo(InRepo(file_dir, ref), RepoPath)
  IN  <<target>> \o [k \in 1..Len(JsExts) |->
                       P("", Appended(target.parts, JsExts[k]))]

\* a specifier that starts with "." and stays inside the repository
IsJsRelative(file_dir, l) ==
  /\ l.kind \in {"import_from", "require"}
  /\ StartsWithDot(l.ref)
  /\ IsRelativeTo(InRepo(file_dir, l.ref), RepoPath)
  /\ HasName(RelativeTo(InRepo(file_dir, l.ref), RepoPath))

\* C15: once analyze() has returned, a readable JavaScript/TypeScript file
\* in directory D has, for each specifier S that starts with "." and stays
\* inside the repository, the edge to the first regular file among D/S,
\* D/S.js, D/S.ts, D/S.jsx, D/S.tsx, D/S.vue; a file made of such specifiers
\* has no other edge.
C15_JsRelative ==
  pc = "done" =>
    \A i \in DOMAIN files :
      LET rel == files[i].rel_path
          file_dir == Parent(ParsePath(rel))
          lines == content[rel].lines
      IN  (files[i].language \in {"javascript", "typescript"} /\ ReadText(rel) = "ok") =>
            /\ \A l \in Range(lines) :
                 IsJsRelative(file_dir, l) =>
                   FirstFile(JsNamed(file_dir, l.ref)) \subseteq Range(Get(dependencies, rel))
            /\ (\A l \in Range(lines) : IsJsRelative(file_dir, l)) =>
                 Range(Get(dependencies, rel))
                   = UNION {FirstFile(JsNamed(file_dir, l.ref)) : l \in Range(lines)}

\* the stem of the last component of a path text's path
LastStem(parts) == parts[Len(parts)].stem

\* the name the target text t ends in is the one the reference ends in
NamedBy(t, ref) ==
  \E q \in JsFocusPaths : Str(q) = t /\ LastStem(q.parts) = LastStem(ref.segs)

\* C16: a specifier that starts with neither "." nor "/" produces no edge:
\* every member of the forward entry of a JavaScript/TypeScript file is
\* named by one of the file's specifiers that start with "." or "/".
C16_BareNoEdge ==
  \A a \in DOMAIN dependencies :
    \A t \in Range(dependencies[a]) :
      \E l \in Range(content[a].lines) :
        /\ StartsWithDot(l.ref) \/ StartsWithSlash(l.ref)
        /\ NamedBy(t, l.ref)

\* analyze() has returned for src/app.ts, which imports 'react' and
\* './util', in a checkout that holds react, src/react and src/react.ts:
\* its only edge is the one to src/util.ts
C16_Witness ==
  /\ pc = "done"
  /\ {Div(RepoPath, Rel1(W("react"))), Div(RepoPath, Rel2(W("src"), W("react"))),
      Div(RepoPath, Rel2(W("src"), N("react", ".ts")))} \subseteq disk
  /\ "src/app.ts" \in DOMAIN dependencies
  /\ Line("import_from", Ref(0, <<W("react")>>)) \in Range(content["src/app.ts"].lines)
  /\ dependencies["src/app.ts"] = <<"src/util.ts">>

\* D/<path>.rs, D/<path>/mod.rs
RustNamed(file_dir, ref) ==
  <<Div(file_dir, P("", Appended(ref.segs, ".rs"))),
    Div(file_dir, P("", Append(ref.segs, N("mod", ".rs"))))>>

\* C17: once analyze() has returned, the forward entry of a readable Rust
\* file in directory D holds, for each "mod name;" and each "use
\* crate::a::b", D/<path>.rs when it exists, otherwise D/<path>/mod.rs when
\* that exists, and nothing else.
C17_RustOrder ==
  pc = "done" =>
    \A i \in DOMAIN files :
      LET rel == files[i].rel_path
          file_dir == Parent(ParsePath(rel))
      IN  (files[i].language = "rust" /\ ReadText(rel) = "ok") =>
            Range(Get(dependencies, rel))
              = UNION {FirstFile(RustNamed(file_dir, l.ref)) : l \in Range(content[rel].lines)}

\* analyze() has returned for lib/mod.rs holding "mod sub;" and "use
\* crate::a::b;" where lib/sub.rs and lib/sub/mod.rs both exist and of the
\* two forms of a/b only lib/a/b/mod.rs does
C17_Witness ==
  /\ pc = "done"
  /\ {Div(RepoPath, Rel2(W("lib"), N("sub", ".rs"))),
      Div(RepoPath, Rel3(W("lib"), W("sub"), N("mod", ".rs"))),
      Div(RepoPath, P("", <<W("lib"), W("a"), W("b"), N("mod", ".rs")>>))} \subseteq disk
  /\ Div(RepoPath, Rel3(W("lib"), W("a"), N("b", ".rs"))) \notin disk
  /\ "lib/mod.rs" \in DOMAIN dependencies
  /\ Range(content["lib/mod.rs"].lines)
       = {Line("mod", Ref(0, <<W("sub")>>)), Line("use", Ref(0, <<W("a"), W("b")>>))}
  /\ Range(dependencies["lib/mod.rs"]) = {"lib/sub.rs", "lib/a/b/mod.rs"}

\* a relative Go import that stays inside the repository and whose joined
\* path is no regular file
IsGoUnmatched(file_dir, l) ==
  /\ StartsWithDot(l.ref)
  /\ IsRelativeTo(InRepo(file_dir, l.ref), RepoPath)
  /\ ~IsFile(InRepo(file_dir, l.ref))

\* C18: a readable Go file whose imports are relative imports without a
\* matching file (next to imports of plain packages) gets no edge, and
\* analyze() does not stop at it with an exception.
C18_GoNoMatch ==
  \A i \in DOMAIN files :
    LET rel == files[i].rel_path
        file_dir == Parent(ParsePath(rel))
        lines == content[rel].lines
    IN  (/\ files[i].language = "go"
         /\ ReadText(rel) = "ok"
         /\ \E l \in Range(lines) : IsGoUnmatched(file_dir, l)
         /\ \A l \in Range(lines) : IsGoUnmatched(file_dir, l) \/ ~HasSlash(l.ref)) =>
          /\ ~(pc = "raised" /\ idx = i)
          /\ rel \notin DOMAIN dependencies

\* for the module a.b.c referenced from D: D/a/b/c, D/a/b/c.py,
\* D/a/b/c/__init__.py, a/b/c, a/b/c.py
PyNamed(file_dir, ref) ==
  <<Div(file_dir, P("", ref.segs)),
    Div(file_dir, P("", Appended(ref.segs, ".py"))),
    Div(file_dir, P("", Append(ref.segs, N("__init__", ".py")))),
    P("", ref.segs),
    P("", Appended(ref.segs, ".py"))>>

\* "from a.b.c import x" without leading dots
IsFromAbsolute(l) == l.kind = "from" /\ l.ref.lead = 0 /\ Len(l.ref.segs) > 0

\* C19: once analyze() has returned, a readable Python file in directory D
\* has, for each "from <module> import", the edge to the first existing
\* candidate among D/m, D/m.py, D/m/__init__.py, m, m.py (m the module as a
\* path); a file made of such lines has no other edge.
C19_PythonOrder ==
  pc = "done" =>
    \A i \in DOMAIN files :
      LET rel == files[i].rel_path
          file_dir == Parent(ParsePath(rel))
          lines == content[rel].lines
      IN  (files[i].language = "python" /\ ReadText(rel) = "ok") =>
            /\ \A l \in Range(lines) :
                 IsFromAbsolute(l) =>
                   FirstFile(PyNamed(file_dir, l.ref)) \subseteq Range(Get(dependencies, rel))
            /\ (\A l \in Range(lines) : IsFromAbsolute(l)) =>
                 Range(Get(dependencies, rel))
                   = UNION {FirstFile(PyNamed(file_dir, l.ref)) : l \in Range(lines)}

\* analyze() has returned for pkg/b.py holding "from a import x" where
\* pkg/a.py, pkg/a/__init__.py, a and a.py all exist: the edge is the local
\* pkg/a.py
C19_Witness ==
  /\ pc = "done"
  /\ {Div(RepoPath, Rel2(W("pkg"), N("a", ".py"))),
      Div(RepoPath, Rel3(W("pkg"), W("a"), N("__init__", ".py"))),
      Div(RepoPath, Rel1(W("a"))), Div(RepoPath, Rel1(N("a", ".py")))} \subseteq disk
  /\ "pkg/b.py" \in DOMAIN dependencies
  /\ content["pkg/b.py"].lines = <<Line("from", Ref(0, <<W("a")>>))>>
  /\ dependencies["pkg/b.py"] = <<"pkg/a.py">>

\* "import a.b.c": a dotted name of two or more segments
IsImportDotted(l) == l.kind = "import" /\ Len(l.ref.segs) > 1

\* C20: once analyze() has returned, a readable Python file has, for each
\* "import a.b.c", the edge to the file of the whole dotted name a/b/c; a
\* file made of such lines has no other edge (none to the file of the first
\* segment a).
C20_ImportDotted ==
  pc = "done" =>
    \A i \in DOMAIN files :
      LET rel == files[i].rel_path
          file_dir == Parent(ParsePath(rel))
          lines == content[rel].lines
      IN  (files[i].language = "python" /\ ReadText(rel) = "ok") =>
            /\ \A l \in Range(lines) :
                 IsImportDotted(l) =>
                   FirstFile(PyNamed(file_dir, l.ref)) \subseteq Range(Get(dependencies, rel))
            /\ (\A l \in Range(lines) : IsImportDotted(l)) =>
                 Range(Get(dependencies, rel))
                   = UNION {FirstFile(PyNamed(file_dir, l.ref)) : l \in Range(lines)}

\* "from .a.b import x": leading dots followed by a dotted name
IsFromRelative(l) == l.kind = "from" /\ l.ref.lead >= 1 /\ Len(l.ref.segs) > 0

\* for the remainder a.b of a relative module referenced from D: D/a/b, D/a/b.py
PyRelativeNamed(file_dir, ref) ==
  <<Div(file_dir, P("", ref.segs)), Div(file_dir, P("", Appended(ref.segs, ".py")))>>

\* C21: once analyze() has returned, a readable Python file in directory D
\* made of lines "from <dots><name> import ..." has exactly the edges to the
\* first existing of D/<name> and D/<name>.py of each line: the line is a
\* relative module, never an absolute one.
C21_FromRelative ==
  pc = "done" =>
    \A i \in DOMAIN files :
      LET rel == files[i].rel_path
          file_dir == Parent(ParsePath(rel))
          lines == content[rel].lines
      IN  (/\ files[i].language = "python"
           /\ ReadText(rel) = "ok"
           /\ \A l \in Range(lines) : IsFromRelative(l)) =>
            Range(Get(dependencies, rel))
              = UNION {FirstFile(PyRelativeNamed(file_dir, l.ref)) : l \in Range(lines)}

\* C22: every member of the forward entry of a JavaScript/TypeScript file
\* is, for one of its relative specifiers S, the path D/S itself or D/S with
\* one of the extensions appended (never a path whose suffix was replaced);
\* and once analyze() has returned, D/S with the first appended extension
\* that exists is a member when D/S itself is no file.
C22_JsAppend ==
  \A i \in DOMAIN files :
    LET rel == files[i].rel_path
        file_dir == Parent(ParsePath(rel))
        lines == content[rel].lines
    IN  (files[i].language \in {"javascript", "typescript"} /\ ReadText(rel) = "ok") =>
          /\ \A t \in Range(Get(dependencies, rel)) :
               \E l \in Range(lines) :
                 /\ IsJsRelative(file_dir, l)
                 /\ \E k \in DOMAIN JsNamed(file_dir, l.ref) :
                      t = Str(JsNamed(file_dir, l.ref)[k])
          /\ pc = "done" =>
               \A l \in Range(lines) :
                 IsJsRelative(file_dir, l) =>
                   FirstFile(JsNamed(file_dir, l.ref)) \subseteq Range(Get(dependencies, rel))

\* C23: a Go import path that does not start with "." produces no edge:
\* every member of the forward entry of a Go file in directory D is D/S
\* for one of the file's import paths S that start with ".".
C23_GoNonRelative ==
  \A a \in DOMAIN dependencies :
    RecordOf(a).language = "go" =>
      \A t \in Range(dependencies[a]) :
        \E l \in Range(content[a].lines) :
          /\ StartsWithDot(l.ref)
          /\ t = Str(RelativeTo(InRepo(Parent(ParsePath(a)), l.ref), RepoPath))

\* analyze() has returned for cmd/main.go, which imports "fmt",
\* "cmd/helpers" and nothing else, in a checkout that holds fmt, cmd/fmt and
\* cmd/helpers: the file has no edge
C23_Witness ==
  /\ pc = "done"
  /\ {Div(RepoPath, q) : q \in GoPackagePaths} \subseteq disk
  /\ Len(files) = 1
  /\ ReadText("cmd/main.go") = "ok"
  /\ Range(content["cmd/main.go"].lines)
       = {Line("import", Ref(0, <<W("fmt")>>)), Line("import", Ref(0, <<W("cmd"), W("helpers")>>))}
  /\ "cmd/main.go" \notin DOMAIN dependencies
  /\ dependents = EmptyMap

\* the import paths of a Go file when a block ends with its ")": at a
\* line that is ")", at a ")" followed by a comment, and on the line of
\* "import (" itself when the block is closed there
RECURSIVE GoBlockRefs(_, _)
GoBlockRefs(lines, in_block) ==
  IF Len(lines) = 0 THEN {}
  ELSE LET l == Head(lines)
       IN  CASE l.kind = "open" -> GoBlockRefs(Tail(lines), TRUE)
             [] l.kind = "open_inline" -> {l.ref} \cup GoBlockRefs(Tail(lines), FALSE)
             [] l.kind \in {"close", "close_comment"} -> GoBlockRefs(Tail(lines), FALSE)
             [] l.kind = "import" -> {l.ref} \cup GoBlockRefs(Tail(lines), in_block)
             [] l.kind = "quoted" ->
                  (IF in_block THEN {l.ref} ELSE {}) \cup GoBlockRefs(Tail(lines), in_block)
             [] OTHER -> GoBlockRefs(Tail(lines), in_block)

\* the file a relative import path names, if it is a regular file
GoNamed(file_dir, ref) ==
  IF StartsWithDot(ref) /\ IsRelativeTo(InRepo(file_dir, ref), RepoPath)
  THEN FirstFile(<<RelativeTo(InRepo(file_dir, ref), RepoPath)>>)
  ELSE {}

\* C24: once analyze() has returned, the forward entry of a readable Go
\* file holds the files of the import paths quoted inside its import
\* statements and blocks and nothing else: a quoted string on a line after
\* a block was closed produces no edge.
C24_GoBlockConfined ==
  pc = "done" =>
    \A i \in DOMAIN files :
      LET rel == files[i].rel_path
          file_dir == Parent(ParsePath(rel))
      IN  (files[i].language = "go" /\ ReadText(rel) = "ok") =>
            Range(Get(dependencies, rel))
              = UNION {GoNamed(file_dir, r) : r \in GoBlockRefs(content[rel].lines, FALSE)}

\* C25: once analyze() has returned, for the first time or again, every
\* reverse entry holds each dependent at most once, and every edge of the
\* reverse map is an edge of the forward map.
C25_ReverseDeduplicated ==
  pc = "done" =>
    \A b \in DOMAIN dependents :
      /\ \A i, j \in DOMAIN dependents[b] : dependents[b][i] = dependents[b][j] => i = j
      /\ \A a \in Range(dependents[b]) : b \in Range(Get(dependencies, a))

\* C26: between the iterations of analyze()'s loop, and when an exception
\* has left analyze(), b is in the forward entry of a if and only if a is in
\* the reverse entry of b; the file at which an exception left analyze() is
\* in neither map as a source.
C26_BoundaryConsistent ==
  /\ \A a, b \in Nodes :
       (b \in Range(Get(dependencies, a))) <=> (a \in Range(Get(dependents, b)))
  /\ pc = "raised" =>
       /\ files[idx].rel_path \notin DOMAIN dependencies
       /\ files[idx].rel_path \notin Sources

\* an exception left analyze() at the second file of the snapshot after the
\* first file's edges were recorded
C26_Witness ==
  /\ pc = "raised"
  /\ idx = 2
  /\ files[1].rel_path \in DOMAIN dependencies
  /\ dependents # EmptyMap

\* C27: queries are read-only: every step that is no step of analyze() (it
\* leaves the position of analyze() and the number of its calls alone, as
\* get_file_dependencies and get_file_dependents do) leaves the forward
\* and the reverse map unchanged, keys included.
C27_QueriesReadOnly ==
  [][(pc' = pc /\ idx' = idx /\ runs' = runs) =>
       (dependencies' = dependencies /\ dependents' = dependents)]_vars

\* after an analyze() that found edges, get_file_dependencies was asked
\* about an unknown path, which is a key of neither map
C27_Witness ==
  /\ pc = "done"
  /\ DOMAIN dependencies # {}
  /\ ret.op = "dependencies"
  /\ ret.arg = "missing.py"
  /\ "missing.py" \notin DOMAIN dependencies \cup DOMAIN dependents

\* C28: the graph does not depend on the working directory: a second run
\* over the same checkout returns with the maps, as sets per key, that the
\* first run returned with, from whichever working directory each was
\* started, and no run stops with an exception at a readable file.
C28_CwdIndependent ==
  /\ (pc = "done" /\ runs >= 2 /\ firstGraph # <<>>) =>
       <<AsSets(dependencies), AsSets(dependents)>> = firstGraph
  /\ pc = "raised" => ReadText(files[idx].rel_path) # "ok"

\* C29: github_actions_mode never reads changed_files or filter_changed
\* before a statement has bound it, whatever the docs, the event, the head
\* sha and the changed-file list are, and when no changed files were
\* determined the analyzer is given the whole collected file list.
C29_DefinedBeforeRead ==
  /\ gh.pc # "NameError"
  /\ (gh.pc = "analysis" /\ (~gh.changed_bound \/ gh.changed_files = <<>>)) =>
       files = gh.collected

\* C30: _wait_for_fork ends after at most 10 polls: a poll that answers 200
\* is the last one and makes _ensure_fork return the fork URL; RuntimeError
\* is raised by _wait_for_fork exactly when 10 polls were answered and none
\* with 200; the repository URL is returned without a poll when the owners
\* are equal; and every call eventually returns or raises.
C30_WaitForFork ==
  /\ [](/\ Len(fork.answers) <= 10
        /\ \A i \in 1..Len(fork.answers) :
             fork.answers[i] = 200 =>
               (i = Len(fork.answers) /\ fork.pc = "returned" /\ fork.result = "fork_url")
        /\ (fork.pc = "returned" /\ fork.result = "fork_url") =>
             (Len(fork.answers) >= 1 /\ fork.answers[Len(fork.answers)] = 200)
        /\ (fork.pc = "returned" /\ fork.result # "fork_url") =>
             (fork.result = "repo_url" /\ fork.same_owner /\ fork.answers = <<>>)
        /\ fork.raised_by = "_wait_for_fork" =>
             (fork.pc = "RuntimeError" /\ Len(fork.answers) = 10
              /\ \A i \in 1..10 : fork.answers[i] # 200)
        /\ (Len(fork.answers) = 10 /\ fork.pc # "polling"
            /\ \A i \in 1..10 : fork.answers[i] # 200) =>
             (fork.pc = "RuntimeError" /\ fork.raised_by = "_wait_for_fork"))
  /\ <>(fork.pc \in {"returned", "RuntimeError", "HTTPError"})

\* ten polls were answered, none with 200, and RuntimeError was raised
C30_Witness ==
  /\ fork.pc = "RuntimeError"
  /\ fork.raised_by = "_wait_for_fork"
  /\ Len(fork.answers) = 10

====
